---- MODULE Spec2Model ----
(***************************************************************************)
(* Model of `nanocl vm attach` (exec_vm_attach in                          *)
(* src/bin/nanocl/src/commands/vm.rs, lines 300-396).                      *)
(*                                                                         *)
(* Four activities run concurrently once the function has started them:    *)
(*   - the heartbeat task        (rt::spawn, 312-319)                      *)
(*   - the console read thread   (thread::spawn, 334-347)                  *)
(*   - the relay task            (rt::spawn, 350-356)                      *)
(*   - the ws dispatcher loop    (exec_vm_attach itself, 360-392)          *)
(* The environment chooses what stdin delivers, what the websocket         *)
(* receiver yields, and whether a send / local write succeeds.             *)
(*                                                                         *)
(* stdin is either a terminal for the whole run or not a terminal at all:  *)
(* Termios::from_fd and tcsetattr fail exactly when it is not one.         *)
(***************************************************************************)
EXTENDS Integers, Sequences, FiniteSets, TLC

\* ---------------------------------------------------------------- bounds
MaxTicks  == 1      \* heartbeat periods that elapse
MaxReads  == 2      \* stdin reads that return
MaxFrames == 2      \* items the websocket receiver yields

\* ------------------------------------------------------- program constants
ICANON == 2         \* termios::ICANON (0o2)
ECHO   == 8         \* termios::ECHO   (0o10)
LflagWidth == 4     \* bits of c_lflag kept by the model

VARIABLES
  pc,                \* position of exec_vm_attach
  result,            \* value returned by exec_vm_attach ("none" while running)
  tty,               \* stdin is a terminal
  term,              \* terminal settings held by the kernel for stdin
  original_termios,  \* saved copy (line 323), "none" before it is taken
  rawApplied,        \* tcsetattr of line 332 has succeeded
  restores,          \* number of tcsetattr calls of line 394
  hb,                \* heartbeat task: "none" | "running" | "stopped"
  ticks,             \* heartbeat periods elapsed so far
  reader,            \* read thread: "none" | "running" | "stopped" | "panicked"
  reads,             \* stdin reads returned so far
  stdin,             \* what each of those reads returned, in order
  keys,              \* texts the read thread handed to tx.send, in order
  relay,             \* relay task: "none" | "running" | "ended" | "failed"
  queue,             \* content of the mpsc::unbounded channel
  txAlive,           \* the channel's sender exists
  rxAlive,           \* the channel's receiver exists
  wire,              \* frames accepted by the transport's send half, in order
  sendFailed,        \* some sink.send has returned an error
  io,                \* calls made on the local stdout / stderr, in order
  recvd,             \* items taken from the websocket receiver
  last,              \* the item the dispatcher handled last
  pingsHandled,      \* inbound Ping frames handled
  closeSeen          \* a Close frame has been handled

vars == <<pc, result, tty, term, original_termios, rawApplied, restores,
          hb, ticks, reader, reads, stdin, keys, relay, queue, txAlive, rxAlive,
          wire, sendFailed, io, recvd, last, pingsHandled, closeSeen>>

termVars  == <<tty, term, original_termios, rawApplied, restores>>
hbVars    == <<hb, ticks>>
readVars  == <<reader, reads, stdin, keys>>
chanVars  == <<queue, txAlive, rxAlive>>
relayVars == <<relay>>
dispVars  == <<io, recvd, last, pingsHandled, closeSeen>>

\* ------------------------------------------------------------ bit helpers
RECURSIVE Pow2(_)
Pow2(n) == IF n = 0 THEN 1 ELSE 2 * Pow2(n - 1)

Bit(x, i) == (x \div Pow2(i)) % 2

RECURSIVE AndNotFrom(_, _, _)
AndNotFrom(x, m, i) ==
  IF i = LflagWidth THEN 0
  ELSE Pow2(i) * Bit(x, i) * (1 - Bit(m, i)) + AndNotFrom(x, m, i + 1)

\* x & !m on LflagWidth bits
AndNot(x, m) == AndNotFrom(x, m, 0)

RECURSIVE OrFrom(_, _, _)
OrFrom(a, b, i) ==
  IF i = LflagWidth THEN 0
  ELSE Pow2(i) * (IF Bit(a, i) + Bit(b, i) > 0 THEN 1 ELSE 0) + OrFrom(a, b, i + 1)

\* a | b on LflagWidth bits
BitOr(a, b) == OrFrom(a, b, 0)

\* --------------------------------------------------------------- terminal
\* settings of the terminal when the command starts: a cooked terminal
\* (ISIG | ICANON | ECHO) with one input flag set
InitialTermios ==
  { [c_lflag |-> l, c_iflag |-> i] : l \in {11}, i \in {1} }

\* every setting the terminal can have on LflagWidth local-mode bits
AllTermios ==
  { [c_lflag |-> l, c_iflag |-> i] : l \in 0..(Pow2(LflagWidth) - 1), i \in {0, 1} }

\* RawOf clearing the whole of c_lflag instead of the two flags
RawOf_ZeroLflag(t) == [t EXCEPT !.c_lflag = 0]

\* termios.c_lflag &= !(ICANON | ECHO)
RawOf(t) == [t EXCEPT !.c_lflag = AndNot(t.c_lflag, BitOr(ICANON, ECHO))]

\* ------------------------------------------------------------ ws messages
PingPayloads == {<<"p">>, <<"q">>}

\* ws::Message::Ping(Bytes::new())
HeartbeatPing == [type |-> "Ping", payload |-> <<>>]

\* a Pong that drops the payload of the Ping it answers
PongOf_Empty(msg) == [type |-> "Pong", payload |-> <<>>]

\* ws::Message::Pong(msg)
PongOf(msg) == [type |-> "Pong", payload |-> msg]

\* ws::Message::Text(s.into())
TextOf(s) == [type |-> "Text", payload |-> s]

\* a frame on the wire, with the task whose sink.send put it there
Written(by, msg) == [by |-> by, type |-> msg.type, payload |-> msg.payload]

\* ---------------------------------------------------------------- stdin
StdinBytes == {97, 195}

\* std::str::from_utf8 on the one-byte buffer
FromUtf8(input) ==
  IF input[1] < 128 THEN [ok |-> TRUE, s |-> input]
                    ELSE [ok |-> FALSE, s |-> <<>>]

\* ------------------------------------------------------------ output log
OutputKinds == {"StdOut", "StdErr", "Console", "StdIn"}
OutputData  == {"x"}

\* the payloads a Binary frame can carry
WellFormed == { <<"{", "Kind", k, "Data", d, "}">> : k \in OutputKinds, d \in OutputData }
Malformed  == { <<>>, <<"{", "Kind", "Bogus", "Data", "x", "}">> }
BinaryPayloads == WellFormed \cup Malformed

\* serde_json::from_slice::<OutputLog>
Decode(text) ==
  IF /\ Len(text) = 6
     /\ text[1] = "{" /\ text[2] = "Kind" /\ text[3] \in OutputKinds
     /\ text[4] = "Data" /\ text[6] = "}"
  THEN [ok |-> TRUE, kind |-> text[3], data |-> text[5]]
  ELSE [ok |-> FALSE, kind |-> "none", data |-> ""]

WriteAll(stream, data) == [op |-> "write_all", stream |-> stream, data |-> data]
Flush(stream) == [op |-> "flush", stream |-> stream, data |-> ""]

\* KindCalls with the StdErr arm writing to stdout like the other two
KindCalls_AllStdout(output) ==
  CASE output.kind \in {"StdOut", "StdErr", "Console"} ->
         <<WriteAll("stdout", output.data), Flush("stdout")>>
    [] OTHER -> <<>>

\* the match on output.kind, lines 367-381: the calls made when all succeed
KindCalls(output) ==
  CASE output.kind = "StdOut"  -> <<WriteAll("stdout", output.data), Flush("stdout")>>
    [] output.kind = "StdErr"  -> <<WriteAll("stderr", output.data), Flush("stdout")>>
    [] output.kind = "Console" -> <<WriteAll("stdout", output.data), Flush("stdout")>>
    [] OTHER -> <<>>

\* ------------------------------------------------------------------ Init
Init ==
  /\ pc = "connect"
  /\ result = "none"
  /\ tty \in BOOLEAN
  /\ term \in InitialTermios
  /\ original_termios = "none"
  /\ rawApplied = FALSE
  /\ restores = 0
  /\ hb = "none"
  /\ ticks = 0
  /\ reader = "none"
  /\ reads = 0
  /\ stdin = <<>>
  /\ keys = <<>>
  /\ relay = "none"
  /\ queue = <<>>
  /\ txAlive = FALSE
  /\ rxAlive = FALSE
  /\ wire = <<>>
  /\ sendFailed = FALSE
  /\ io = <<>>
  /\ recvd = 0
  /\ last = [type |-> "none", payload |-> <<>>]
  /\ pingsHandled = 0
  /\ closeSeen = FALSE

\* ------------------------------------------------- exec_vm_attach: set-up
\* Connect with the heartbeat task spawned before the connection is awaited
Connect_SpawnsFirst ==
  /\ pc = "connect"
  /\ hb' = "running"
  /\ \E ok \in BOOLEAN :
       IF ok THEN pc' = "channel" /\ result' = result
             ELSE pc' = "done" /\ result' = "Err_connect"
  /\ UNCHANGED <<termVars, ticks, readVars, chanVars, relayVars, dispVars,
                 wire, sendFailed>>

\* line 308: client.attach_vm(..).await?
Connect ==
  /\ pc = "connect"
  /\ \E ok \in BOOLEAN :
       IF ok THEN pc' = "channel" /\ result' = result
             ELSE pc' = "done" /\ result' = "Err_connect"
  /\ UNCHANGED <<termVars, hbVars, readVars, chanVars, relayVars, dispVars,
                 wire, sendFailed>>

\* lines 309-319: the channel is created and the heartbeat task is spawned
SpawnHeartbeat ==
  /\ pc = "channel"
  /\ pc' = "termios"
  /\ txAlive' = TRUE
  /\ rxAlive' = TRUE
  /\ hb' = "running"
  /\ UNCHANGED <<result, termVars, ticks, readVars, queue, relayVars, dispVars,
                 wire, sendFailed>>

\* lines 321-323: Termios::from_fd(..)? and the saved copy
GetTermios ==
  /\ pc = "termios"
  /\ IF tty
       THEN /\ original_termios' = term
            /\ pc' = "setraw"
            /\ UNCHANGED <<result, chanVars>>
       ELSE /\ pc' = "done"
            /\ result' = "Err_termios"
            /\ txAlive' = FALSE
            /\ rxAlive' = FALSE
            /\ queue' = <<>>
            /\ UNCHANGED original_termios
  /\ UNCHANGED <<tty, term, rawApplied, restores, hbVars, readVars, relayVars,
                 dispVars, wire, sendFailed>>

\* lines 325-332: the raw settings are applied
SetRaw ==
  /\ pc = "setraw"
  /\ term' = RawOf(original_termios)
  /\ rawApplied' = TRUE
  /\ pc' = "reader"
  /\ UNCHANGED <<result, tty, original_termios, restores, hbVars, readVars,
                 chanVars, relayVars, dispVars, wire, sendFailed>>

\* line 334: thread::spawn of the console read loop
SpawnReader ==
  /\ pc = "reader"
  /\ reader' = "running"
  /\ pc' = "relay"
  /\ UNCHANGED <<result, termVars, hbVars, reads, stdin, keys, chanVars, relayVars,
                 dispVars, wire, sendFailed>>

\* line 350: rt::spawn of the relay
SpawnRelay ==
  /\ pc = "relay"
  /\ relay' = "running"
  /\ pc' = "dispatch"
  /\ UNCHANGED <<result, termVars, hbVars, readVars, chanVars, dispVars,
                 wire, sendFailed>>

\* ------------------------------------------------------- heartbeat task
\* HeartbeatTick going on to the next period after a failed send
HeartbeatTick_KeepsGoing ==
  /\ hb = "running"
  /\ ticks < MaxTicks
  /\ ticks' = ticks + 1
  /\ \E ok \in BOOLEAN :
       IF ok
         THEN /\ wire' = Append(wire, Written("heartbeat", HeartbeatPing))
              /\ UNCHANGED <<hb, sendFailed>>
         ELSE /\ sendFailed' = TRUE
              /\ UNCHANGED <<hb, wire>>
  /\ UNCHANGED <<pc, result, termVars, readVars, chanVars, relayVars, dispVars>>

\* HeartbeatTick handing the Ping to the channel instead of the sink
HeartbeatTick_Queued ==
  /\ hb = "running"
  /\ ticks < MaxTicks
  /\ ticks' = ticks + 1
  /\ IF rxAlive
       THEN /\ queue' = Append(queue, [msg |-> HeartbeatPing])
            /\ UNCHANGED hb
       ELSE /\ hb' = "stopped"
            /\ UNCHANGED queue
  /\ UNCHANGED <<pc, result, termVars, readVars, txAlive, rxAlive, relayVars,
                 dispVars, wire, sendFailed>>

\* lines 313-318: one period elapses and a Ping is sent through the sink
HeartbeatTick ==
  /\ hb = "running"
  /\ ticks < MaxTicks
  /\ ticks' = ticks + 1
  /\ \E ok \in BOOLEAN :
       IF ok
         THEN /\ wire' = Append(wire, Written("heartbeat", HeartbeatPing))
              /\ UNCHANGED <<hb, sendFailed>>
         ELSE /\ hb' = "stopped"
              /\ sendFailed' = TRUE
              /\ UNCHANGED wire
  /\ UNCHANGED <<pc, result, termVars, readVars, chanVars, relayVars, dispVars>>

\* ---------------------------------------------------- console read thread
\* what one call of std::io::stdin().read(&mut input) leaves behind:
\* an error, zero bytes (the buffer keeps its initial [0]), or one byte
ReadOutcomes ==
  {[res |-> "Err", input |-> <<0>>], [res |-> "Ok0", input |-> <<0>>]}
    \cup { [res |-> "Ok1", input |-> <<b>>] : b \in StdinBytes }

\* ReaderStep with the panic of unwrap() taking the whole process down
ReaderStep_Abort ==
  /\ reader = "running"
  /\ reads < MaxReads
  /\ reads' = reads + 1
  /\ \E r \in ReadOutcomes :
       /\ stdin' = Append(stdin, r)
       /\ IF r.res = "Err"
            THEN /\ reader' = "stopped"
                 /\ txAlive' = FALSE
                 /\ io' = Append(io, [op |-> "println", stream |-> "stdout",
                                       data |-> "Unable to read stdin"])
                 /\ UNCHANGED <<keys, queue, pc, result>>
            ELSE IF ~FromUtf8(r.input).ok
              THEN /\ reader' = "panicked"
                   /\ txAlive' = FALSE
                   /\ pc' = "done"
                   /\ result' = "Err_io"
                   /\ UNCHANGED <<keys, queue, io>>
              ELSE IF rxAlive
                THEN /\ queue' = Append(queue, [msg |-> TextOf(FromUtf8(r.input).s)])
                     /\ keys' = Append(keys, FromUtf8(r.input).s)
                     /\ UNCHANGED <<reader, txAlive, io, pc, result>>
                ELSE /\ reader' = "stopped"
                     /\ txAlive' = FALSE
                     /\ UNCHANGED <<keys, queue, io, pc, result>>
  /\ UNCHANGED <<termVars, hbVars, relayVars, rxAlive, wire,
                 sendFailed, recvd, last, pingsHandled, closeSeen>>

\* lines 334-347: one iteration of the read loop
ReaderStep ==
  /\ reader = "running"
  /\ reads < MaxReads
  /\ reads' = reads + 1
  /\ \E r \in ReadOutcomes :
       /\ stdin' = Append(stdin, r)
       /\ IF r.res = "Err"
            THEN \* println!("Unable to read stdin"); return
                 /\ reader' = "stopped"
                 /\ txAlive' = FALSE
                 /\ io' = Append(io, [op |-> "println", stream |-> "stdout",
                                       data |-> "Unable to read stdin"])
                 /\ UNCHANGED <<keys, queue>>
            ELSE IF ~FromUtf8(r.input).ok
              THEN \* unwrap() panics, the thread unwinds
                   /\ reader' = "panicked"
                   /\ txAlive' = FALSE
                   /\ UNCHANGED <<keys, queue, io>>
              ELSE IF rxAlive
                THEN /\ queue' = Append(queue, [msg |-> TextOf(FromUtf8(r.input).s)])
                     /\ keys' = Append(keys, FromUtf8(r.input).s)
                     /\ UNCHANGED <<reader, txAlive, io>>
                ELSE \* tx.send fails: the receiver is gone
                     /\ reader' = "stopped"
                     /\ txAlive' = FALSE
                     /\ UNCHANGED <<keys, queue, io>>
  /\ UNCHANGED <<pc, result, termVars, hbVars, relayVars, rxAlive, wire,
                 sendFailed, recvd, last, pingsHandled, closeSeen>>

\* ------------------------------------------------------------ relay task
\* RelaySend taking the newest queued message instead of the oldest
RelaySend_Lifo ==
  /\ relay = "running"
  /\ queue /= <<>>
  /\ \E ok \in BOOLEAN :
       IF ok
         THEN /\ wire' = Append(wire, Written("relay", queue[Len(queue)].msg))
              /\ queue' = SubSeq(queue, 1, Len(queue) - 1)
              /\ UNCHANGED <<relay, rxAlive, sendFailed>>
         ELSE /\ relay' = "failed"
              /\ rxAlive' = FALSE
              /\ queue' = <<>>
              /\ sendFailed' = TRUE
              /\ UNCHANGED wire
  /\ UNCHANGED <<pc, result, termVars, hbVars, readVars, txAlive, dispVars>>

\* RelaySend with a failed send ending the whole session with an error
RelaySend_Reports ==
  /\ relay = "running"
  /\ queue /= <<>>
  /\ \E ok \in BOOLEAN :
       IF ok
         THEN /\ wire' = Append(wire, Written("relay", Head(queue).msg))
              /\ queue' = Tail(queue)
              /\ UNCHANGED <<pc, result, relay, rxAlive, sendFailed>>
         ELSE /\ relay' = "failed"
              /\ rxAlive' = FALSE
              /\ queue' = <<>>
              /\ sendFailed' = TRUE
              /\ pc' = "done"
              /\ result' = "Err_io"
              /\ UNCHANGED wire
  /\ UNCHANGED <<termVars, hbVars, readVars, txAlive, dispVars>>

\* RelaySend taken only once the read thread has left its read
RelaySend_AfterRead ==
  /\ relay = "running"
  /\ reader /= "running"
  /\ queue /= <<>>
  /\ \E ok \in BOOLEAN :
       IF ok
         THEN /\ wire' = Append(wire, Written("relay", Head(queue).msg))
              /\ queue' = Tail(queue)
              /\ UNCHANGED <<relay, rxAlive, sendFailed>>
         ELSE /\ relay' = "failed"
              /\ rxAlive' = FALSE
              /\ queue' = <<>>
              /\ sendFailed' = TRUE
              /\ UNCHANGED wire
  /\ UNCHANGED <<pc, result, termVars, hbVars, readVars, txAlive, dispVars>>

\* lines 351-355: rx.next() yields a message and it is sent through the sink
RelaySend ==
  /\ relay = "running"
  /\ queue /= <<>>
  /\ \E ok \in BOOLEAN :
       IF ok
         THEN /\ wire' = Append(wire, Written("relay", Head(queue).msg))
              /\ queue' = Tail(queue)
              /\ UNCHANGED <<relay, rxAlive, sendFailed>>
         ELSE /\ relay' = "failed"
              /\ rxAlive' = FALSE
              /\ queue' = <<>>
              /\ sendFailed' = TRUE
              /\ UNCHANGED wire
  /\ UNCHANGED <<pc, result, termVars, hbVars, readVars, txAlive, dispVars>>

\* RelayEnd as soon as the sender is dropped, whatever is still queued
RelayEnd_Early ==
  /\ relay = "running"
  /\ ~txAlive
  /\ relay' = "ended"
  /\ rxAlive' = FALSE
  /\ queue' = <<>>
  /\ UNCHANGED <<pc, result, termVars, hbVars, readVars, txAlive,
                 wire, sendFailed, dispVars>>

\* line 351: rx.next() yields None, the sender is dropped and nothing is queued
RelayEnd ==
  /\ relay = "running"
  /\ queue = <<>>
  /\ ~txAlive
  /\ relay' = "ended"
  /\ rxAlive' = FALSE
  /\ UNCHANGED <<pc, result, termVars, hbVars, readVars, queue, txAlive,
                 wire, sendFailed, dispVars>>

\* --------------------------------------------------------- ws dispatcher
\* RecvBinary skipping a payload that does not decode instead of returning
RecvBinary_Skip ==
  /\ pc = "dispatch"
  /\ recvd < MaxFrames
  /\ recvd' = recvd + 1
  /\ \E text \in BinaryPayloads :
       /\ last' = [type |-> "Binary", payload |-> text]
       /\ IF ~Decode(text).ok
            THEN UNCHANGED <<pc, result, io>>
            ELSE \E n \in 0..Len(KindCalls(Decode(text))) :
                   /\ io' = io \o SubSeq(KindCalls(Decode(text)), 1, n)
                   /\ IF n = Len(KindCalls(Decode(text)))
                        THEN UNCHANGED <<pc, result>>
                        ELSE pc' = "done" /\ result' = "Err_io"
  /\ UNCHANGED <<termVars, hbVars, readVars, chanVars, relayVars, wire,
                 sendFailed, pingsHandled, closeSeen>>

\* lines 362-382: Ok(ws::Frame::Binary(text))
RecvBinary ==
  /\ pc = "dispatch"
  /\ recvd < MaxFrames
  /\ recvd' = recvd + 1
  /\ \E text \in BinaryPayloads :
       /\ last' = [type |-> "Binary", payload |-> text]
       /\ IF ~Decode(text).ok
            THEN /\ pc' = "done"
                 /\ result' = "Err_decode"
                 /\ UNCHANGED io
            ELSE \E n \in 0..Len(KindCalls(Decode(text))) :
                   \* the first n calls succeed; the next one, if any, fails
                   /\ io' = io \o SubSeq(KindCalls(Decode(text)), 1, n)
                   /\ IF n = Len(KindCalls(Decode(text)))
                        THEN UNCHANGED <<pc, result>>
                        ELSE pc' = "done" /\ result' = "Err_io"
  /\ UNCHANGED <<termVars, hbVars, readVars, chanVars, relayVars, wire,
                 sendFailed, pingsHandled, closeSeen>>

\* lines 383-388: Ok(ws::Frame::Ping(msg))
RecvPing ==
  /\ pc = "dispatch"
  /\ recvd < MaxFrames
  /\ recvd' = recvd + 1
  /\ pingsHandled' = pingsHandled + 1
  /\ \E msg \in PingPayloads :
       /\ last' = [type |-> "Ping", payload |-> msg]
       /\ \E ok \in BOOLEAN :
            IF ok
              THEN /\ wire' = Append(wire, Written("dispatcher", PongOf(msg)))
                   /\ UNCHANGED <<pc, result, sendFailed>>
              ELSE /\ pc' = "done"
                   /\ result' = "Err_pong"
                   /\ sendFailed' = TRUE
                   /\ UNCHANGED wire
  /\ UNCHANGED <<termVars, hbVars, readVars, chanVars, relayVars, io, closeSeen>>

\* the frame variants that fall to the last arm
OtherFrames == {"Text", "Close"}

\* RecvOther leaving the loop on a Close frame
RecvOther_CloseBreaks ==
  /\ pc = "dispatch"
  /\ recvd < MaxFrames
  /\ recvd' = recvd + 1
  /\ \E t \in OtherFrames :
       /\ last' = [type |-> t, payload |-> <<>>]
       /\ closeSeen' = (closeSeen \/ t = "Close")
       /\ pc' = IF t = "Close" THEN "restore" ELSE pc
  /\ UNCHANGED <<result, termVars, hbVars, readVars, chanVars, relayVars,
                 wire, sendFailed, io, pingsHandled>>

\* line 390: _ => ()
RecvOther ==
  /\ pc = "dispatch"
  /\ recvd < MaxFrames
  /\ recvd' = recvd + 1
  /\ \E t \in OtherFrames :
       /\ last' = [type |-> t, payload |-> <<>>]
       /\ closeSeen' = (closeSeen \/ t = "Close")
  /\ UNCHANGED <<pc, result, termVars, hbVars, readVars, chanVars, relayVars,
                 wire, sendFailed, io, pingsHandled>>

\* RecvErr returning the transport error to the caller
RecvErr_Propagate ==
  /\ pc = "dispatch"
  /\ recvd < MaxFrames
  /\ recvd' = recvd + 1
  /\ last' = [type |-> "Err", payload |-> <<>>]
  /\ pc' = "done"
  /\ result' = "Err_io"
  /\ UNCHANGED <<termVars, hbVars, readVars, chanVars, relayVars,
                 wire, sendFailed, io, pingsHandled, closeSeen>>

\* line 389: Err(_) => break
RecvErr ==
  /\ pc = "dispatch"
  /\ recvd < MaxFrames
  /\ recvd' = recvd + 1
  /\ last' = [type |-> "Err", payload |-> <<>>]
  /\ pc' = "restore"
  /\ UNCHANGED <<result, termVars, hbVars, readVars, chanVars, relayVars,
                 wire, sendFailed, io, pingsHandled, closeSeen>>

\* line 360: rx.next() yields None
RecvEnd ==
  /\ pc = "dispatch"
  /\ last' = [type |-> "End", payload |-> <<>>]
  /\ pc' = "restore"
  /\ UNCHANGED <<result, termVars, hbVars, readVars, chanVars, relayVars,
                 wire, sendFailed, io, recvd, pingsHandled, closeSeen>>

\* Restore without the tcsetattr call: the function just returns Ok(())
Restore_Skipped ==
  /\ pc = "restore"
  /\ pc' = "done"
  /\ result' = "Ok"
  /\ UNCHANGED <<termVars, hbVars, readVars, chanVars, relayVars, wire,
                 sendFailed, dispVars>>

\* lines 393-395: the saved settings are applied again, Ok(())
Restore ==
  /\ pc = "restore"
  /\ term' = original_termios
  /\ restores' = restores + 1
  /\ pc' = "done"
  /\ result' = "Ok"
  /\ UNCHANGED <<tty, original_termios, rawApplied, hbVars, readVars, chanVars,
                 relayVars, wire, sendFailed, dispVars>>

\* ------------------------------------------------------------------ Spec
Next ==
  \/ Connect
  \/ SpawnHeartbeat
  \/ GetTermios
  \/ SetRaw
  \/ SpawnReader
  \/ SpawnRelay
  \/ HeartbeatTick
  \/ ReaderStep
  \/ RelaySend
  \/ RelayEnd
  \/ RecvBinary
  \/ RecvPing
  \/ RecvOther
  \/ RecvErr
  \/ RecvEnd
  \/ Restore

Spec == Init /\ [][Next]_vars

\* The terminal handling alone, from any terminal setting: the set-up, a
\* receiver that ends or fails at once, and the restore.
InitTermios ==
  /\ pc = "connect"
  /\ result = "none"
  /\ tty \in BOOLEAN
  /\ term \in AllTermios
  /\ original_termios = "none"
  /\ rawApplied = FALSE
  /\ restores = 0
  /\ hb = "none"
  /\ ticks = 0
  /\ reader = "none"
  /\ reads = 0
  /\ stdin = <<>>
  /\ keys = <<>>
  /\ relay = "none"
  /\ queue = <<>>
  /\ txAlive = FALSE
  /\ rxAlive = FALSE
  /\ wire = <<>>
  /\ sendFailed = FALSE
  /\ io = <<>>
  /\ recvd = 0
  /\ last = [type |-> "none", payload |-> <<>>]
  /\ pingsHandled = 0
  /\ closeSeen = FALSE

NextTermios ==
  \/ Connect
  \/ SpawnHeartbeat
  \/ GetTermios
  \/ SetRaw
  \/ SpawnReader
  \/ SpawnRelay
  \/ RecvErr
  \/ RecvEnd
  \/ Restore

SpecTermios == InitTermios /\ [][NextTermios]_vars

\* =================================================================
\* Properties
\* =================================================================

\* the states of the Inbound Dispatcher, read off the position of the loop
Running == pc = "dispatch"
Closed  == pc = "restore" \/ (pc = "done" /\ result = "Ok")
Failed  == pc = "done" /\ result \in {"Err_decode", "Err_io", "Err_pong"}

Returned == pc = "done"

\* positions of the frames of wire written by one task
WrittenBy(task) == { i \in DOMAIN wire : wire[i].by = task }
OfType(t) == { i \in DOMAIN wire : wire[i].type = t }

\* the relay's first send failed: it stopped on an error having written nothing
FirstRelayWriteFailed == relay = "failed" /\ WrittenBy("relay") = {}

\* C1: once the raw settings have been applied, exec_vm_attach never returns
\* without having reapplied the saved settings exactly once.
C1_RestoredOnEveryReturn ==
  (Returned /\ rawApplied) => (restores = 1 /\ term = original_termios)

RECURSIVE TextsOf(_)
TextsOf(w) ==
  IF w = <<>> THEN <<>>
  ELSE IF Head(w).type = "Text" THEN <<Head(w).payload>> \o TextsOf(Tail(w))
       ELSE TextsOf(Tail(w))

\* payloads of the messages still in the channel
QueueTexts == [i \in DOMAIN queue |-> queue[i].msg.payload]

\* the buffers of a sequence of reads
RECURSIVE InputsOf(_)
InputsOf(rs) ==
  IF rs = <<>> THEN <<>> ELSE <<Head(rs).input>> \o InputsOf(Tail(rs))

IsKeystroke(r) == r.res = "Ok1"
IsUtf8Read(r)  == r.res /= "Err" /\ r.input[1] < 128

PongsOnWire == SelectSeq(wire, LAMBDA f : f.type = "Pong")

\* C6: handling an inbound Ping with payload P puts exactly one Pong carrying
\* P on the wire in that very step (or, when that send fails, none, and the
\* function returns the error).  Every handled Ping therefore has its Pong on
\* the wire already, and since the wire only grows at its end, each message
\* queued or sent after the Ping was handled is written behind that Pong.
C6_PongEchoesPing ==
  /\ [][(recvd' = recvd + 1 /\ last'.type = "Ping") =>
          \/ /\ wire' = Append(wire, [by |-> "dispatcher", type |-> "Pong",
                                      payload |-> last'.payload])
             /\ pc' = "dispatch"
          \/ /\ wire' = wire
             /\ pc' = "done" /\ result' = "Err_pong"]_vars
  /\ [](Len(PongsOnWire) = pingsHandled - (IF result = "Err_pong" THEN 1 ELSE 0))
  /\ [][Len(wire') >= Len(wire) /\ SubSeq(wire', 1, Len(wire)) = wire]_vars

\* C6 witness: a Pong carrying "q" is on the wire between two texts, the
\* second of them read after the Ping was handled
C6_Witness ==
  /\ Len(wire) = 3
  /\ wire[1].type = "Text"
  /\ wire[2].type = "Pong" /\ wire[2].payload = <<"q">>
  /\ wire[3].type = "Text"
  /\ queue = <<>> /\ reads = 2 /\ pingsHandled = 1

\* the calls the dispatcher made on the local streams
DispatcherCalls(log) == SelectSeq(log, LAMBDA c : c.op /= "println")

\* the dispatcher handles no further item and writes nothing more
DispatcherIdle ==
  /\ recvd' = recvd /\ last' = last
  /\ DispatcherCalls(io') = DispatcherCalls(io)
  /\ PongsOnWire' = PongsOnWire

\* C7: a Binary frame whose payload does not decode makes exec_vm_attach
\* return the decode error at once: nothing of the frame reaches a local
\* stream or the wire, and no later item is handled.
C7_DecodeFailureStops ==
  /\ [][(recvd' = recvd + 1 /\ last'.type = "Binary" /\ last'.payload \notin WellFormed) =>
          (io' = io /\ wire' = wire /\ pc' = "done" /\ result' = "Err_decode")]_vars
  /\ [][(Returned /\ result = "Err_decode") =>
          (DispatcherIdle /\ pc' = pc /\ result' = result)]_vars

\* C7 witness: the second frame did not decode, after a first one was written
C7_Witness ==
  /\ result = "Err_decode" /\ recvd = 2
  /\ last.payload \in Malformed /\ DispatcherCalls(io) /= <<>>

\* C8 (as claimed): after a Close frame has been handled no further item is
\* taken from the receiver.
C8_NothingAfterClose == [][closeSeen => recvd' = recvd]_vars

\* C8 (amended): a Close frame falls to the catch-all arm: handling it changes
\* nothing, the dispatcher stays in its loop and handles what follows; when
\* exec_vm_attach returns Ok after a Close frame, the loop was ended by the end
\* of the stream or by a transport error item.
C8_CloseIsIgnored ==
  /\ [][(recvd' = recvd + 1 /\ last'.type = "Close") =>
          (pc' = "dispatch" /\ result' = result /\ io' = io /\ wire' = wire)]_vars
  /\ []((closeSeen /\ Returned /\ result = "Ok") => last.type \in {"End", "Err"})

\* C8 witness: a Binary frame that followed a Close frame has been written out
C8_Witness ==
  /\ closeSeen /\ recvd = 2 /\ last.type = "Binary"
  /\ DispatcherCalls(io) /= <<>> /\ Running

NewCalls == SubSeq(io', Len(io) + 1, Len(io'))
NewWrites == SelectSeq(NewCalls, LAMBDA c : c.op = "write_all")

\* C10: handling a Binary frame that decodes to (kind, data) writes data to
\* stdout and nothing to stderr for StdOut and Console, to stderr and nothing
\* to stdout for StdErr (no write at all only when the write failed and the
\* function returns the error), and makes no call and stays in the loop for
\* any other kind.
C10_RoutedByKind ==
  [][(recvd' = recvd + 1 /\ last'.type = "Binary" /\ last'.payload \in WellFormed) =>
       LET kind == last'.payload[3]
           data == last'.payload[5]
       IN  /\ Len(io') >= Len(io) /\ SubSeq(io', 1, Len(io)) = io
           /\ IF kind \in {"StdOut", "Console"}
                THEN /\ NewWrites \in {<<>>, <<[op |-> "write_all", stream |-> "stdout", data |-> data]>>}
                     /\ (NewWrites = <<>>) => (pc' = "done" /\ result' = "Err_io")
                ELSE IF kind = "StdErr"
                THEN /\ NewWrites \in {<<>>, <<[op |-> "write_all", stream |-> "stderr", data |-> data]>>}
                     /\ (NewWrites = <<>>) => (pc' = "done" /\ result' = "Err_io")
                ELSE NewCalls = <<>> /\ pc' = "dispatch" /\ result' = result]_vars

\* C10 witness: "x" went to stderr, then a frame of another kind was dropped
C10_Witness ==
  /\ Running /\ recvd = 2
  /\ last.type = "Binary" /\ last.payload \in WellFormed /\ last.payload[3] = "StdIn"
  /\ Len(io) = 2 /\ io[1] = [op |-> "write_all", stream |-> "stderr", data |-> "x"]

\* C11: the saved copy is the setting found at the start and never changes;
\* the raw setting differs from it in the ICANON and ECHO bits only, which are
\* clear, every other bit of c_lflag and the other attributes being as saved;
\* after the restore the terminal has exactly the saved setting again.
C11_SnapshotRoundTrip ==
  /\ [][(pc = "termios" /\ pc' = "setraw") => original_termios' = term]_vars
  /\ [][rawApplied => original_termios' = original_termios]_vars
  /\ []((rawApplied /\ restores = 0) =>
          /\ term.c_iflag = original_termios.c_iflag
          /\ \A i \in 0..(LflagWidth - 1) :
               Bit(term.c_lflag, i) =
                 IF Pow2(i) \in {ICANON, ECHO} THEN 0
                 ELSE Bit(original_termios.c_lflag, i))
  /\ [](restores = 1 => term = original_termios)

\* C11 witness: a terminal with every local-mode bit and the input flag set
\* was made raw and has been restored
C11_Witness ==
  /\ restores = 1
  /\ original_termios = [c_lflag |-> Pow2(LflagWidth) - 1, c_iflag |-> 1]
  /\ term = original_termios

\* C12 (as claimed): nothing is started and nothing is sent before the raw
\* setting has been applied, and a failure to read the terminal setting
\* returns with no task running.
C12_TerminalAcquiredFirst ==
  /\ (hb /= "none" \/ reader /= "none" \/ relay /= "none" \/ wire /= <<>>) => rawApplied
  /\ (result = "Err_termios") => (hb /= "running" /\ reader /= "running" /\ relay /= "running")

\* the frames of the wire written by one task
FramesBy(task) == SelectSeq(wire, LAMBDA f : f.by = task)

\* C13: a failed heartbeat send ends the heartbeat task and nothing else: the
\* step changes neither the position nor the result of exec_vm_attach nor the
\* other tasks, and a stopped heartbeat task never sends again.
C13_HeartbeatFailureEndsOnlyHeartbeat ==
  /\ [][(ticks' = ticks + 1 /\ wire' = wire) => (hb = "running" /\ hb' = "stopped")]_vars
  /\ [][(hb = "running" /\ hb' = "stopped") =>
          (pc' = pc /\ result' = result /\ reader' = reader /\ relay' = relay
           /\ queue' = queue /\ io' = io)]_vars
  /\ [][hb = "stopped" =>
          (hb' = "stopped" /\ ticks' = ticks /\ FramesBy("heartbeat")' = FramesBy("heartbeat"))]_vars

\* C13 witness: the heartbeat stopped on its first send, and exec_vm_attach
\* handled two frames and returned Ok
C13_Witness ==
  /\ hb = "stopped" /\ FramesBy("heartbeat") = <<>>
  /\ recvd = 2 /\ Returned /\ result = "Ok"

ReaderGone == reader \in {"stopped", "panicked"}

\* C14: a read error or a byte that is not valid UTF-8 ends the read thread:
\* nothing is queued for it or after it, the step changes neither the position
\* nor the result of exec_vm_attach nor the other tasks, and the dispatcher can
\* still take the next item.
C14_ReaderFailureEndsOnlyReader ==
  /\ [][(reads' = reads + 1 /\ (stdin'[reads'].res = "Err" \/ stdin'[reads'].input[1] >= 128)) =>
          (reader' \in {"stopped", "panicked"} /\ queue' = queue /\ keys' = keys)]_vars
  /\ [][(reader = "running" /\ reader' \in {"stopped", "panicked"}) =>
          (pc' = pc /\ result' = result /\ hb' = hb /\ relay' = relay /\ wire' = wire
           /\ recvd' = recvd)]_vars
  /\ [][ReaderGone =>
          (reader' = reader /\ reads' = reads /\ keys' = keys /\ Len(queue') <= Len(queue))]_vars
  /\ []((ReaderGone /\ Running /\ recvd < MaxFrames) =>
          (ENABLED RecvBinary /\ ENABLED RecvPing /\ ENABLED RecvErr))

\* C14 witness: the first byte read was not UTF-8, the thread is gone, and
\* exec_vm_attach handled two frames and returned Ok
C14_Witness ==
  /\ reader = "panicked" /\ reads = 1 /\ stdin[1].input = <<195>> /\ keys = <<>>
  /\ recvd = 2 /\ Returned /\ result = "Ok"

\* C15: the relay ends when the sender is dropped and nothing is left queued,
\* or when a send fails; it drains what is queued before it ends, and once it
\* has ended or failed it writes nothing more.
C15_RelayTermination ==
  /\ [][(relay = "running" /\ relay' = "ended") =>
          (~txAlive /\ queue = <<>> /\ wire' = wire)]_vars
  /\ [][(relay = "running" /\ relay' = "failed") => (wire' = wire /\ sendFailed')]_vars
  /\ [][(relay \in {"ended", "failed"}) =>
          (relay' = relay /\ FramesBy("relay")' = FramesBy("relay"))]_vars
  /\ []((relay = "running" /\ ~txAlive /\ queue = <<>>) => ENABLED RelayEnd)
  /\ []((relay = "running" /\ queue /= <<>>) => ENABLED RelaySend)

\* C15 witness: the read thread is gone and the relay ended after writing the
\* text that was queued
C15_Witness ==
  /\ relay = "ended" /\ ReaderGone
  /\ Len(FramesBy("relay")) = 1 /\ keys = TextsOf(wire) /\ queue = <<>>

\* C16 (as claimed): once exec_vm_attach has returned, a relay that is still
\* running can always take a step of its own (write a queued message or see
\* the channel closed) while the read thread sits in its read, so it ends
\* without a further byte being read.
C16_RelayEndsWithoutKeystroke ==
  (Returned /\ reader = "running" /\ relay = "running") =>
     (ENABLED RelaySend \/ ENABLED RelayEnd)

\* C17: while the read thread is in its read, the dispatcher can take the next
\* frame, the heartbeat can send the Ping that is due, and the relay can write
\* what is queued; none of these steps involves a read.
C17_OthersProgressWhileReading ==
  /\ [](reader = "running" =>
          /\ (Running /\ recvd < MaxFrames) =>
               ENABLED (RecvPing \/ RecvBinary \/ RecvOther)
          /\ (hb = "running" /\ ticks < MaxTicks) => ENABLED HeartbeatTick
          /\ (relay = "running" /\ queue /= <<>>) => ENABLED RelaySend)
  /\ [][(recvd' /= recvd \/ wire' /= wire \/ ticks' /= ticks) =>
          (reads' = reads /\ reader' = reader /\ stdin' = stdin)]_vars

\* C17 witness: one byte was read and the thread is in its second read, while
\* two frames were handled, a Ping was sent and the queued Text was written
C17_Witness ==
  /\ reader = "running" /\ reads = 1
  /\ recvd = 2 /\ Len(FramesBy("heartbeat")) = 1 /\ Len(FramesBy("relay")) = 1

\* C18 (as claimed): every flush is of the stream the preceding call wrote to.
C18_FlushesTheStreamWritten ==
  \A i \in 2..Len(io) :
     io[i].op = "flush" => (io[i-1].op = "write_all" /\ io[i].stream = io[i-1].stream)

\* C19 (as claimed): a Text is enqueued only for a read that delivered one
\* byte, and it carries that byte.
C19_TextOnlyForByteRead ==
  [][keys' /= keys =>
       (/\ reads' = reads + 1
        /\ stdin'[reads'].res = "Ok1"
        /\ keys' = Append(keys, stdin'[reads'].input))]_vars

\* C20: when the connection fails, exec_vm_attach has returned that error with
\* the terminal settings untouched, no task or thread started, no frame
\* received and nothing sent, and this stays so.
C20_ConnectFailureStartsNothing ==
  (result = "Err_connect") =>
     /\ Returned
     /\ ~rawApplied /\ restores = 0 /\ term \in InitialTermios
     /\ hb = "none" /\ reader = "none" /\ relay = "none"
     /\ ~txAlive /\ ~rxAlive
     /\ recvd = 0 /\ wire = <<>> /\ io = <<>>

\* C20 witness: the connection failed
C20_Witness == pc = "done" /\ result = "Err_connect" /\ hb = "none" /\ term.c_lflag = 11

====
